---- MODULE Spec2Model ----
(***************************************************************************)
(* A model of seabird-rs: the Block builder of src/block.rs with its two   *)
(* conversions to and from proto::Block, and the authenticated clients of  *)
(* src/client.rs.                                                           *)
(*                                                                         *)
(* Four specifications share the module:                                   *)
(*   Spec        a Block value driven through builder methods and the two  *)
(*               From conversions;                                          *)
(*   SpecChain   the expression                                             *)
(*               Block::new().container([a,b])                              *)
(*                   .append(Block::new().container([c,d])).into()          *)
(*               evaluated step by step for every choice of a, b, c, d;    *)
(*   SpecBuild   one content-taking builder method applied to a builder;   *)
(*   SpecClient  construction of a client and the calls made through it.   *)
(***************************************************************************)
EXTENDS Integers, Sequences, FiniteSets

VARIABLES
    (* Spec: the value under construction and how it was obtained *)
    value,      \* [ty |-> "Block", v |-> Block] or [ty |-> "proto", v |-> proto::Block]
    last,       \* the last operation: [op, self, arg]
    origin,     \* the value before the last two operations, when both were conversions
    (* SpecChain *)
    chain,      \* [pc, items, lhs, rhs, out]
    (* SpecClient *)
    config,     \* ClientConfig: [url, token]
    client,     \* which constructor runs: "SeabirdClient" or "ChatIngestClient"
    pc,         \* position inside new(): "parse", "tls", "connect", "token", "wrap", "ready", "failed"
    builder,    \* the channel builder: [uri, tls]
    net,        \* the network as the endpoint sees it: [attempts, connected, tls]
    auth_header,\* the local `auth_header` of new(): None until the token is parsed
    inner,      \* the stub wrapped around the intercepted channel: None until new() returns Ok
    result,     \* what new() returned: None while it runs, then Some([ok, step, context])
    call        \* the call made through the client: [stage, method, args, req, metadata, intercepted, out, issued, response, ret]

blockVars == <<value, last, origin>>
chainVars == <<chain>>
clientVars == <<config, client, pc, builder, net, auth_header, inner, result, call>>
vars == <<value, last, origin, chain, config, client, pc, builder, net, auth_header, inner, result, call>>

(***************************************************************************)
(* Bounds                                                                   *)
(***************************************************************************)
\* the longest children sequence a builder of Spec may grow to
MaxLen == 2
\* the longest token of SpecClient, in characters
MaxTokenLen == 1
\* the most items passed to list() and container() in SpecBuild
MaxItems == 2

(***************************************************************************)
(* proto::Block, the wire node: {plain: String, inner: Option<Inner>}.      *)
(* Inner is a oneof; a variant is a record tagged by kind.                  *)
(***************************************************************************)
\* Option<T>: None, or Some(x)
None == <<>>

Some(x) == <<x>>

TextBlock(t) == [kind |-> "Text", text |-> t]

ContainerBlock(blocks) == [kind |-> "Container", inner |-> blocks]

BoldBlock(b) == [kind |-> "Bold", inner |-> b]

ProtoBlock(p, i) == [plain |-> p, inner |-> i]

\* `if let Some(proto::block::Inner::Container(container)) = block.inner`
IsContainer(block) ==
    block.inner # None /\ block.inner[1].kind = "Container"

(***************************************************************************)
(* Block, the builder: {children: Vec<proto::Block>}                        *)
(***************************************************************************)
new == [children |-> <<>>]

\* Block::text
text(self, t) ==
    [children |-> Append(self.children, ProtoBlock("", Some(TextBlock(t))))]

\* impl From<Block> for proto::Block, with the children reversed when wrapped
ProtoFromBlock_Reversed(block) ==
    IF Len(block.children) = 1
    THEN block.children[1]
    ELSE ProtoBlock("", Some(ContainerBlock(
            [i \in 1..Len(block.children) |->
                block.children[Len(block.children) + 1 - i]])))

\* impl From<Block> for proto::Block
ProtoFromBlock(block) ==
    IF Len(block.children) = 1
    THEN block.children[1]
    ELSE ProtoBlock("", Some(ContainerBlock(block.children)))

\* impl From<proto::Block> for Block, unwrapping nothing
BlockFromProto_NeverUnwrapped(block) ==
    [children |-> <<block>>]

\* impl From<proto::Block> for Block, unwrapping every level of a lone Container
RECURSIVE BlockFromProto_Deep(_)
BlockFromProto_Deep(block) ==
    IF IsContainer(block)
    THEN IF Len(block.inner[1].inner) = 1 /\ IsContainer(block.inner[1].inner[1])
         THEN BlockFromProto_Deep(block.inner[1].inner[1])
         ELSE [children |-> block.inner[1].inner]
    ELSE [children |-> <<block>>]

\* impl From<proto::Block> for Block
BlockFromProto(block) ==
    IF IsContainer(block)
    THEN [children |-> block.inner[1].inner]
    ELSE [children |-> <<block>>]

\* impl From<&str> for Block, impl From<String> for Block
BlockFromStr(t) == text(new, t)

(***************************************************************************)
(* A value passed where the code takes `impl Into<Block>` is a string, a   *)
(* proto::Block or a Block; IntoBlock is the conversion the compiler picks.*)
(***************************************************************************)
Str(s) == [ty |-> "str", v |-> s]
Proto(b) == [ty |-> "proto", v |-> b]
Blk(b) == [ty |-> "Block", v |-> b]
NoArg == [ty |-> "none"]

IntoBlock(x) ==
    CASE x.ty = "str" -> BlockFromStr(x.v)
      [] x.ty = "proto" -> BlockFromProto(x.v)
      [] x.ty = "Block" -> x.v

\* Block::append, splicing at the front
append_Front(self, block) ==
    [children |-> IntoBlock(block).children \o self.children]

\* Block::append
append(self, block) ==
    [children |-> self.children \o IntoBlock(block).children]

\* Block::prepend
prepend(self, block) ==
    [children |-> IntoBlock(block).children \o self.children]

\* Block::container, pushing the items themselves instead of one Container
container_Spliced(self, blocks) ==
    [children |-> self.children \o
        [i \in 1..Len(blocks) |-> ProtoFromBlock(IntoBlock(blocks[i]))]]

\* Block::container
container(self, blocks) ==
    [children |-> Append(self.children,
        ProtoBlock("", Some(ContainerBlock(
            [i \in 1..Len(blocks) |-> ProtoFromBlock(IntoBlock(blocks[i]))]))))]

(***************************************************************************)
(* Inputs of Spec and SpecChain                                             *)
(***************************************************************************)
Strings == {"a", "b"}

T(s) == ProtoBlock("", Some(TextBlock(s)))

C(blocks) == ProtoBlock("", Some(ContainerBlock(blocks)))

\* proto::Block values a caller may hold: leaves, a node with no kind set, a
\* structural node, and Containers of zero, one and two inner nodes, with and
\* without a plain-text fallback, one of them nested.
Nodes ==
    { T("a"), T("b"),
      ProtoBlock("p", None),
      ProtoBlock("", Some(BoldBlock(Some(T("a"))))),
      C(<<>>),
      C(<<T("a")>>),
      C(<<T("a"), T("b")>>),
      ProtoBlock("p", Some(ContainerBlock(<<T("b"), T("a")>>))),
      C(<<C(<<T("a")>>)>>) }

SeqsUpTo(S, n) == UNION { [1..k -> S] : k \in 0..n }

\* what may be passed as `impl Into<Block>`
IntoBlockArgs ==
    { Str(s) : s \in Strings }
    \cup { Proto(n) : n \in Nodes }
    \cup { Blk([children |-> cs]) : cs \in SeqsUpTo(Nodes, MaxLen) }

(***************************************************************************)
(* Spec: one value, a Block or a proto::Block, and the operations on it     *)
(***************************************************************************)
ChainIdle == [pc |-> "idle"]

ClientIdle ==
    /\ config = [url |-> "", token |-> <<>>]
    /\ client = "none"
    /\ pc = "idle"
    /\ builder = [uri |-> None, tls |-> FALSE]
    /\ net = [attempts |-> 0, connected |-> FALSE, tls |-> FALSE]
    /\ auth_header = None
    /\ inner = None
    /\ result = None
    /\ call = [stage |-> "idle"]

Init ==
    /\ value = Blk(new)
    /\ last = [op |-> "new", self |-> NoArg, arg |-> NoArg]
    /\ origin = NoArg
    /\ chain = ChainIdle
    /\ ClientIdle

\* Block::new()
New ==
    /\ value' = Blk(new)
    /\ last' = [op |-> "new", self |-> value, arg |-> NoArg]
    /\ origin' = NoArg
    /\ UNCHANGED <<chainVars, clientVars>>

\* a proto::Block the caller holds (received, or built as a struct literal)
Wire ==
    \E n \in Nodes :
        /\ value' = Proto(n)
        /\ last' = [op |-> "wire", self |-> value, arg |-> NoArg]
        /\ origin' = NoArg
        /\ UNCHANGED <<chainVars, clientVars>>

\* value.text(s)
Text ==
    \E s \in Strings :
        /\ value.ty = "Block"
        /\ Len(value.v.children) < MaxLen
        /\ value' = Blk(text(value.v, s))
        /\ last' = [op |-> "text", self |-> value, arg |-> Str(s)]
        /\ origin' = NoArg
        /\ UNCHANGED <<chainVars, clientVars>>

\* value.append(x)
AppendBlock ==
    \E x \in IntoBlockArgs :
        /\ value.ty = "Block"
        /\ Len(append(value.v, x).children) <= MaxLen
        /\ value' = Blk(append(value.v, x))
        /\ last' = [op |-> "append", self |-> value, arg |-> x]
        /\ origin' = NoArg
        /\ UNCHANGED <<chainVars, clientVars>>

\* value.prepend(x)
PrependBlock ==
    \E x \in IntoBlockArgs :
        /\ value.ty = "Block"
        /\ Len(prepend(value.v, x).children) <= MaxLen
        /\ value' = Blk(prepend(value.v, x))
        /\ last' = [op |-> "prepend", self |-> value, arg |-> x]
        /\ origin' = NoArg
        /\ UNCHANGED <<chainVars, clientVars>>

\* proto::Block::from(value), value a Block
IntoProto ==
    /\ value.ty = "Block"
    /\ value' = Proto(ProtoFromBlock(value.v))
    /\ last' = [op |-> "into_proto", self |-> value, arg |-> NoArg]
    /\ origin' = IF last.op = "into_block" THEN last.self ELSE NoArg
    /\ UNCHANGED <<chainVars, clientVars>>

\* Block::from(value), value a proto::Block
IntoBlockOp ==
    /\ value.ty = "proto"
    /\ value' = Blk(BlockFromProto(value.v))
    /\ last' = [op |-> "into_block", self |-> value, arg |-> NoArg]
    /\ origin' = IF last.op = "into_proto" THEN last.self ELSE NoArg
    /\ UNCHANGED <<chainVars, clientVars>>

Next ==
    \/ New
    \/ Wire
    \/ Text
    \/ AppendBlock
    \/ PrependBlock
    \/ IntoProto
    \/ IntoBlockOp

Spec == Init /\ [][Next]_vars

(***************************************************************************)
(* Claims checked under Spec                                                *)
(***************************************************************************)
\* the state is the result of Block::from(proto::Block::from(b)) for a Block b
RoundTripDone == last.op = "into_block" /\ origin.ty = "Block"

LoneContainer(cs) ==
    Len(cs) = 1 /\ cs[1].inner # None /\ cs[1].inner[1].kind = "Container"

\* C1 as stated: converting a builder b to a proto::Block and back yields a
\* builder whose children equal b's children, for every b.
C1_RoundTripIdentity ==
    RoundTripDone => value.v.children = origin.v.children

\* C1 amended: converting a builder b to a proto::Block and back yields b's
\* children unless b's only child is a Container; then it yields that
\* Container's inner sequence.
C1_RoundTripAmended ==
    RoundTripDone =>
        IF LoneContainer(origin.v.children)
        THEN value.v.children = origin.v.children[1].inner[1].inner
        ELSE value.v.children = origin.v.children

\* C1 witness: a round trip of a builder whose only child is a Container of two
\* nodes has ended with the two nodes as children.
C1_Witness ==
    /\ RoundTripDone
    /\ LoneContainer(origin.v.children)
    /\ Len(value.v.children) = 2
    /\ value.v.children # origin.v.children

\* C2: converting a builder to a proto::Block gives the child itself when the
\* builder has exactly one child, and otherwise a Container whose inner
\* sequence is the builder's children in order.
C2_Normalization ==
    last.op = "into_proto" =>
        LET cs == last.self.v.children IN
        IF Len(cs) = 1
        THEN value.v = cs[1]
        ELSE /\ value.v.inner # None
             /\ value.v.inner[1].kind = "Container"
             /\ value.v.inner[1].inner = cs

\* C2 witness: a builder of two different children has been converted.
C2_Witness ==
    /\ last.op = "into_proto"
    /\ Len(last.self.v.children) = 2
    /\ last.self.v.children[1] # last.self.v.children[2]
    /\ value.v.inner[1].kind = "Container"

\* what C8 says the argument of append/prepend contributes
C8_Contribution(x) ==
    CASE x.ty = "Block" -> x.v.children
      [] x.ty = "proto" ->
            IF x.v.inner # None /\ x.v.inner[1].kind = "Container"
            THEN x.v.inner[1].inner
            ELSE <<x.v>>
      [] x.ty = "str" -> <<ProtoBlock("", Some(TextBlock(x.v)))>>

\* C8: append(other) leaves the previous children followed by other's, and
\* prepend(other) other's followed by the previous children; the count is the
\* sum of the two counts; a proto::Block argument contributes its inner nodes
\* when it is a Container and itself otherwise.
C8_Splice ==
    /\ last.op = "append" =>
        /\ value.v.children = last.self.v.children \o C8_Contribution(last.arg)
        /\ Len(value.v.children) =
            Len(last.self.v.children) + Len(C8_Contribution(last.arg))
    /\ last.op = "prepend" =>
        /\ value.v.children = C8_Contribution(last.arg) \o last.self.v.children
        /\ Len(value.v.children) =
            Len(last.self.v.children) + Len(C8_Contribution(last.arg))

\* C8 witness: a non-empty builder has been appended to a non-empty builder
\* with different children.
C8_Witness ==
    /\ last.op = "append"
    /\ last.arg.ty = "Block"
    /\ Len(last.self.v.children) = 1
    /\ Len(last.arg.v.children) = 1
    /\ last.self.v.children # last.arg.v.children

\* C9: converting a proto::Block to a builder gives the Container's inner
\* sequence, one level unwrapped, when the node is a Container, and the node
\* alone when it is of another kind or has no kind set.
C9_Denormalization ==
    last.op = "into_block" =>
        LET n == last.self.v IN
        IF n.inner # None /\ n.inner[1].kind = "Container"
        THEN value.v.children = n.inner[1].inner
        ELSE value.v.children = <<n>>

\* C9 witness: a Container holding one Container has been converted, and the
\* inner Container is the builder's only child.
C9_Witness ==
    /\ last.op = "into_block"
    /\ LoneContainer(<<last.self.v>>)
    /\ LoneContainer(last.self.v.inner[1].inner)
    /\ value.v.children = last.self.v.inner[1].inner

(***************************************************************************)
(* SpecChain: Block::new().container([a, b])                                *)
(*                .append(Block::new().container([c, d])).into()            *)
(* for proto::Block items a, b, c, d, one method call per step.             *)
(***************************************************************************)
InitChain ==
    /\ value = Blk(new)
    /\ last = [op |-> "new", self |-> NoArg, arg |-> NoArg]
    /\ origin = NoArg
    /\ \E a \in Nodes, b \in Nodes, c \in Nodes, d \in Nodes :
            chain = [pc |-> "start", items |-> <<a, b, c, d>>,
                     lhs |-> new, rhs |-> new, out |-> None]
    /\ ClientIdle

\* Block::new().container([a, b])
ChainContainerLhs ==
    /\ chain.pc = "start"
    /\ chain' = [chain EXCEPT
            !.lhs = container(chain.lhs, <<Proto(chain.items[1]), Proto(chain.items[2])>>),
            !.pc = "lhs"]
    /\ UNCHANGED <<blockVars, clientVars>>

\* Block::new().container([c, d]), the argument of append
ChainContainerRhs ==
    /\ chain.pc = "lhs"
    /\ chain' = [chain EXCEPT
            !.rhs = container(chain.rhs, <<Proto(chain.items[3]), Proto(chain.items[4])>>),
            !.pc = "rhs"]
    /\ UNCHANGED <<blockVars, clientVars>>

\* .append(rhs): rhs is moved into the call
ChainAppend ==
    /\ chain.pc = "rhs"
    /\ chain' = [chain EXCEPT
            !.lhs = append(chain.lhs, Blk(chain.rhs)),
            !.rhs = new,
            !.pc = "appended"]
    /\ UNCHANGED <<blockVars, clientVars>>

\* .into(): proto::Block::from(lhs)
ChainInto ==
    /\ chain.pc = "appended"
    /\ chain' = [chain EXCEPT
            !.out = Some(ProtoFromBlock(chain.lhs)),
            !.pc = "done"]
    /\ UNCHANGED <<blockVars, clientVars>>

NextChain ==
    \/ ChainContainerLhs
    \/ ChainContainerRhs
    \/ ChainAppend
    \/ ChainInto

SpecChain == InitChain /\ [][NextChain]_vars

\* C3 as stated: container([a,b]) followed by append(container([c,d]))
\* normalizes to a Container whose children are exactly [a, b, c, d].
C3_FlatChildren ==
    chain.pc = "done" =>
        /\ chain.out[1].inner # None
        /\ chain.out[1].inner[1].kind = "Container"
        /\ chain.out[1].inner[1].inner = chain.items

\* an item of container(..) as it is stored: a Container of exactly one inner
\* node is stored as that node, any other Container as a Container of the same
\* inner nodes with an empty plain text, any other node as it is
C3_Stored(x) ==
    IF x.inner # None /\ x.inner[1].kind = "Container"
    THEN IF Len(x.inner[1].inner) = 1
         THEN x.inner[1].inner[1]
         ELSE ProtoBlock("", Some(ContainerBlock(x.inner[1].inner)))
    ELSE x

\* C3 amended: container([a,b]) followed by append(container([c,d])) normalizes
\* to a Container of exactly two children, the Container made of a and b and
\* then the Container made of c and d, each holding its two items as stored;
\* the four items are not spliced into one sequence.
C3_TwoContainers ==
    chain.pc = "done" =>
        /\ chain.out[1].inner # None
        /\ chain.out[1].inner[1].kind = "Container"
        /\ chain.out[1].inner[1].inner =
            << ProtoBlock("", Some(ContainerBlock(
                    <<C3_Stored(chain.items[1]), C3_Stored(chain.items[2])>>))),
               ProtoBlock("", Some(ContainerBlock(
                    <<C3_Stored(chain.items[3]), C3_Stored(chain.items[4])>>))) >>

\* C3 witness: the expression has been evaluated for four different items,
\* none a Container, and the result holds two Containers.
C3_Witness ==
    /\ chain.pc = "done"
    /\ Cardinality({chain.items[i] : i \in 1..4}) = 4
    /\ \A i \in 1..4 : chain.items[i] = C3_Stored(chain.items[i])
    /\ Len(chain.out[1].inner[1].inner) = 2

(***************************************************************************)
(* src/client.rs: MessageContent                                            *)
(***************************************************************************)
MessageContentText(t) == [kind |-> "Text", v |-> t]

MessageContentBlocks(b) == [kind |-> "Blocks", v |-> b]

\* what may be passed as `impl Into<MessageContent>`: impl From<String>,
\* From<&str>, From<proto::Block> (client.rs) and From<Block> (block.rs)
IntoMessageContent(x) ==
    CASE x.ty = "str" -> MessageContentText(x.v)
      [] x.ty = "proto" -> MessageContentBlocks(x.v)
      [] x.ty = "Block" -> MessageContentBlocks(ProtoFromBlock(x.v))

\* MessageContent::into_inner, losing the block
into_inner_BlockDropped(self) ==
    IF self.kind = "Text"
    THEN <<self.v, None>>
    ELSE <<"", None>>

\* MessageContent::into_inner, sending the block's plain text beside the block
into_inner_PlainBeside(self) ==
    IF self.kind = "Text"
    THEN <<self.v, None>>
    ELSE <<"plain", Some(self.v)>>

\* MessageContent::into_inner: (text, root_block)
into_inner(self) ==
    IF self.kind = "Text"
    THEN <<self.v, None>>
    ELSE <<"", Some(self.v)>>

\* Option<HashMap<String, String>>::unwrap_or_default; a map is a set of pairs
unwrap_or_default(tags) ==
    IF tags = None THEN {} ELSE tags[1]

(***************************************************************************)
(* src/client.rs: new(), for SeabirdClient and ChatIngestClient alike       *)
(***************************************************************************)
\* config.url.parse::<Uri>() on the URLs of the model: None when it fails
ParseUri(url) ==
    CASE url = "https://x" -> Some([scheme |-> Some("https"), authority |-> "x"])
      [] url = "http://x" -> Some([scheme |-> Some("http"), authority |-> "x"])
      [] url = "ftp://x" -> Some([scheme |-> Some("ftp"), authority |-> "x"])
      [] url = "x" -> Some([scheme |-> None, authority |-> "x"])
      [] OTHER -> None

Urls == {"https://x", "http://x", "ftp://x", "x", "", "http://x y"}

\* `match uri.scheme_str() { None | Some("https") => ..tls_config.., _ => {} }`
\* with the None arm forgotten
scheme_selects_tls_HttpsOnly(uri) ==
    uri.scheme = Some("https")

\* `match uri.scheme_str() { None | Some("https") => ..tls_config.., _ => {} }`
scheme_selects_tls(uri) ==
    uri.scheme = None \/ uri.scheme = Some("https")

\* characters of the model's tokens, and those no header value may hold
TokenChars == {"s", "k", "\n"}

IllegalHeaderChars == {"\n"}

Tokens == SeqsUpTo(TokenChars, MaxTokenLen)

\* format!("Bearer {}", config.token)
format_bearer(token) == <<"B", "e", "a", "r", "e", "r", " ">> \o token

\* str::parse::<MetadataValue<Ascii>>(), accepting everything
parse_metadata_value_Unchecked(s) == Some(s)

\* str::parse::<MetadataValue<Ascii>>(): None when a character is illegal
parse_metadata_value(s) ==
    IF \A i \in 1..Len(s) : s[i] \notin IllegalHeaderChars
    THEN Some(s)
    ELSE None

Err(step, context) == Some([ok |-> FALSE, step |-> step, context |-> context])

InitClient ==
    /\ value = Blk(new)
    /\ last = [op |-> "new", self |-> NoArg, arg |-> NoArg]
    /\ origin = NoArg
    /\ chain = ChainIdle
    /\ config \in [url : Urls, token : Tokens]
    /\ client \in {"SeabirdClient", "ChatIngestClient"}
    /\ pc = "parse"
    /\ builder = [uri |-> None, tls |-> FALSE]
    /\ net = [attempts |-> 0, connected |-> FALSE, tls |-> FALSE]
    /\ auth_header = None
    /\ inner = None
    /\ result = None
    /\ call = [stage |-> "idle"]

\* let uri: Uri = config.url.parse().context("failed to parse seabird URL")?;
\* let mut channel_builder = Channel::builder(uri.clone());
ParseUrl ==
    /\ pc = "parse"
    /\ IF ParseUri(config.url) = None
       THEN /\ pc' = "failed"
            /\ result' = Err("parse", Some("failed to parse seabird URL"))
            /\ UNCHANGED builder
       ELSE /\ pc' = "tls"
            /\ builder' = [uri |-> ParseUri(config.url), tls |-> FALSE]
            /\ UNCHANGED result
    /\ UNCHANGED <<blockVars, chainVars, config, client, net, auth_header, inner, call>>

\* match uri.scheme_str() { None | Some("https") =>
\*     channel_builder = channel_builder.tls_config(ClientTlsConfig::new())?, _ => {} }
\* tls_config may fail; its error is returned as it is
SelectTls ==
    /\ pc = "tls"
    /\ IF scheme_selects_tls(builder.uri[1])
       THEN \/ /\ builder' = [builder EXCEPT !.tls = TRUE]
               /\ pc' = "connect"
               /\ UNCHANGED result
            \/ /\ pc' = "failed"
               /\ result' = Err("tls", None)
               /\ UNCHANGED builder
       ELSE /\ pc' = "connect"
            /\ UNCHANGED <<builder, result>>
    /\ UNCHANGED <<blockVars, chainVars, config, client, net, auth_header, inner, call>>

\* channel_builder.connect().await, with the failure ignored: new() goes on
Connect_FailureIgnored ==
    /\ pc = "connect"
    /\ \E connected \in BOOLEAN :
          net' = [attempts |-> net.attempts + 1, connected |-> connected,
                  tls |-> connected /\ builder.tls]
    /\ pc' = "token"
    /\ UNCHANGED <<blockVars, chainVars, config, client, builder, auth_header, inner,
                   result, call>>

\* channel_builder.connect().await.context("Failed to connect to seabird")?
\* the endpoint is reached, or it is not
Connect ==
    /\ pc = "connect"
    /\ \/ /\ net' = [attempts |-> net.attempts + 1, connected |-> TRUE, tls |-> builder.tls]
          /\ pc' = "token"
          /\ UNCHANGED result
       \/ /\ net' = [net EXCEPT !.attempts = net.attempts + 1]
          /\ pc' = "failed"
          /\ result' = Err("connect", Some("Failed to connect to seabird"))
    /\ UNCHANGED <<blockVars, chainVars, config, client, builder, auth_header, inner, call>>

\* let auth_header: MetadataValue<Ascii> = format!("Bearer {}", config.token).parse()?;
ValidateToken ==
    /\ pc = "token"
    /\ IF parse_metadata_value(format_bearer(config.token)) = None
       THEN /\ pc' = "failed"
            /\ result' = Err("token", None)
            /\ UNCHANGED auth_header
       ELSE /\ pc' = "wrap"
            /\ auth_header' = parse_metadata_value(format_bearer(config.token))
            /\ UNCHANGED result
    /\ UNCHANGED <<blockVars, chainVars, config, client, builder, net, inner, call>>

\* with_interceptor(channel, AuthHeaderInterceptor { auth_header }); Ok(Self { inner })
Wrap ==
    /\ pc = "wrap"
    /\ inner' = Some([auth_header |-> auth_header[1]])
    /\ result' = Some([ok |-> TRUE, step |-> "wrap", context |-> None])
    /\ pc' = "ready"
    /\ UNCHANGED <<blockVars, chainVars, config, client, builder, net, auth_header, call>>

(***************************************************************************)
(* src/client.rs: calls through a constructed client                        *)
(***************************************************************************)
Ids == {"chan-1", "user-1"}

ContentArgs ==
    { Str(""), Str("hi"),
      Proto(T("a")), Proto(C(<<>>)),
      Blk(new), Blk(text(new, "a")), Blk([children |-> <<T("a"), T("b")>>]) }

TagArgs == { None, Some({}), Some({<<"k", "v">>}) }

\* authorization values a request handed to the raw stub may already carry
PriorAuthorization == { None, Some(<<"x">>) }

\* AuthHeaderInterceptor::call, keeping a header the request already has
interceptor_call_KeepExisting(self, req) ==
    IF req.metadata.authorization = None
    THEN [req EXCEPT !.metadata.authorization = Some(self.auth_header)]
    ELSE req

\* AuthHeaderInterceptor::call: metadata.insert("authorization", auth_header), Ok(req)
interceptor_call(self, req) ==
    [req EXCEPT !.metadata.authorization = Some(self.auth_header)]

\* SeabirdClient::perform_private_action, up to the call on self.inner
perform_private_action(user_id, content, tags) ==
    LET p == into_inner(IntoMessageContent(content)) IN
    [method |-> "PerformPrivateAction",
     req |-> [user_id |-> user_id, text |-> p[1], root_block |-> p[2],
              tags |-> unwrap_or_default(tags)]]

\* SeabirdClient::perform_action, up to the call on self.inner
perform_action(channel_id, content, tags) ==
    LET p == into_inner(IntoMessageContent(content)) IN
    [method |-> "PerformAction",
     req |-> [channel_id |-> channel_id, text |-> p[1], root_block |-> p[2],
              tags |-> unwrap_or_default(tags)]]

\* SeabirdClient::send_message, up to the call on self.inner
send_message(channel_id, content, tags) ==
    LET p == into_inner(IntoMessageContent(content)) IN
    [method |-> "SendMessage",
     req |-> [channel_id |-> channel_id, text |-> p[1], root_block |-> p[2],
              tags |-> unwrap_or_default(tags)]]

\* SeabirdClient::send_private_message, up to the call on self.inner
send_private_message(user_id, content, tags) ==
    LET p == into_inner(IntoMessageContent(content)) IN
    [method |-> "SendPrivateMessage",
     req |-> [user_id |-> user_id, text |-> p[1], root_block |-> p[2],
              tags |-> unwrap_or_default(tags)]]

\* a call may start once new() returned Ok and the previous call returned:
\* every method takes &mut self
CanCall == pc = "ready" /\ call.stage \in {"idle", "returned"}

\* the generated stub makes a tonic::Request of the message and hands it to
\* the intercepted channel
Issue(rpc, args, authorization) ==
    /\ call' = [stage |-> "built", method |-> rpc.method, args |-> args,
                req |-> rpc.req, metadata |-> [authorization |-> authorization],
                intercepted |-> 0, out |-> None, issued |-> 0, response |-> None,
                ret |-> None]
    /\ UNCHANGED <<blockVars, chainVars, config, client, pc, builder, net, auth_header,
                   inner, result>>

PerformPrivateAction ==
    \E id \in Ids, content \in ContentArgs, tags \in TagArgs :
        /\ CanCall /\ client = "SeabirdClient"
        /\ Issue(perform_private_action(id, content, tags),
                 [id |-> id, content |-> content, tags |-> tags], None)

PerformAction ==
    \E id \in Ids, content \in ContentArgs, tags \in TagArgs :
        /\ CanCall /\ client = "SeabirdClient"
        /\ Issue(perform_action(id, content, tags),
                 [id |-> id, content |-> content, tags |-> tags], None)

SendMessage ==
    \E id \in Ids, content \in ContentArgs, tags \in TagArgs :
        /\ CanCall /\ client = "SeabirdClient"
        /\ Issue(send_message(id, content, tags),
                 [id |-> id, content |-> content, tags |-> tags], None)

SendPrivateMessage ==
    \E id \in Ids, content \in ContentArgs, tags \in TagArgs :
        /\ CanCall /\ client = "SeabirdClient"
        /\ Issue(send_private_message(id, content, tags),
                 [id |-> id, content |-> content, tags |-> tags], None)

\* inner_ref() / inner_mut_ref(): a call on the generated stub itself, with a
\* tonic::Request the caller built, of either client
RawCall ==
    \E authorization \in PriorAuthorization :
        /\ CanCall
        /\ Issue([method |-> IF client = "SeabirdClient" THEN "StreamEvents" ELSE "IngestEvents",
                  req |-> [payload |-> "raw"]],
                 [authorization |-> authorization], authorization)

\* InterceptedService runs the interceptor on the request's metadata
Intercept ==
    /\ call.stage = "built"
    /\ call' = [call EXCEPT
            !.metadata = interceptor_call(inner[1], [metadata |-> call.metadata]).metadata,
            !.intercepted = @ + 1,
            !.stage = "intercepted"]
    /\ UNCHANGED <<blockVars, chainVars, config, client, pc, builder, net, auth_header,
                   inner, result>>

\* the interceptor returned Ok(req): the request goes to the channel
Transmit ==
    /\ call.stage = "intercepted"
    /\ call' = [call EXCEPT
            !.out = Some([method |-> call.method, req |-> call.req,
                          metadata |-> call.metadata]),
            !.issued = @ + 1,
            !.stage = "awaiting"]
    /\ UNCHANGED <<blockVars, chainVars, config, client, pc, builder, net, auth_header,
                   inner, result>>

\* what the channel answers: the reply, or a tonic::Status
Responses ==
    { [ok |-> TRUE, status |-> "Ok"],
      [ok |-> FALSE, status |-> "Unavailable"],
      [ok |-> FALSE, status |-> "PermissionDenied"] }

HighLevelMethods ==
    {"SendMessage", "SendPrivateMessage", "PerformAction", "PerformPrivateAction"}

\* `self.inner.<method>(..).await?; Ok(())`, with the failure dropped
await_result_Swallowed(response) ==
    [ok |-> TRUE, error |-> None, context |-> None]

\* `self.inner.<method>(..).await?; Ok(())`: Ok(()) for a reply; a Status is
\* converted by `?` into the crate's Error and returned, no context attached
await_result(response) ==
    IF response.ok
    THEN [ok |-> TRUE, error |-> None, context |-> None]
    ELSE [ok |-> FALSE, error |-> Some(response.status), context |-> None]

\* the channel answers and the method returns to the caller; the raw stub
\* returns the channel's answer as it is
Respond ==
    /\ call.stage = "awaiting"
    /\ \E response \in Responses :
        call' = [call EXCEPT
            !.response = Some(response),
            !.ret = IF call.method \in HighLevelMethods
                    THEN Some(await_result(response))
                    ELSE Some([ok |-> response.ok,
                               error |-> IF response.ok THEN None ELSE Some(response.status),
                               context |-> None]),
            !.stage = "returned"]
    /\ UNCHANGED <<blockVars, chainVars, config, client, pc, builder, net, auth_header,
                   inner, result>>

NextClient ==
    \/ ParseUrl
    \/ SelectTls
    \/ Connect
    \/ ValidateToken
    \/ Wrap
    \/ PerformPrivateAction
    \/ PerformAction
    \/ SendMessage
    \/ SendPrivateMessage
    \/ RawCall
    \/ Intercept
    \/ Transmit
    \/ Respond

SpecClient == InitClient /\ [][NextClient]_vars

(***************************************************************************)
(* Claims checked under SpecClient                                          *)
(***************************************************************************)
C4_HasIllegalChar(token) == \E i \in 1..Len(token) : token[i] = "\n"

\* C4 as stated: constructing a client with a token that holds a character
\* illegal in a header value fails with an error, and no connection attempt
\* has been made before the failure is returned.
C4_FailsBeforeConnecting ==
    (C4_HasIllegalChar(config.token) /\ result # None) =>
        /\ ~result[1].ok
        /\ net.attempts = 0

\* C4 amended: constructing a client with a token that holds a character
\* illegal in a header value fails with an error and yields no client; the
\* token is validated after the connection is established, so the token's
\* failure is returned only after one connection attempt was made and
\* succeeded.
C4_FailsAfterConnecting ==
    C4_HasIllegalChar(config.token) =>
        /\ pc # "ready" /\ pc # "wrap"
        /\ inner = None
        /\ result # None => ~result[1].ok
        /\ (result # None /\ result[1].step = "token") =>
                net.attempts = 1 /\ net.connected

\* C4 witness: new() has returned the token's failure for a token holding a
\* newline, after connecting.
C4_Witness ==
    /\ C4_HasIllegalChar(config.token)
    /\ result # None
    /\ result[1].step = "token"
    /\ net.attempts = 1

\* C5: once a client is constructed with token t, the stored header is
\* "Bearer " + t and never changes, and every request handed to the channel,
\* from a high-level method or the raw stub, has passed the interceptor once
\* and carries authorization = "Bearer " + t, whatever it carried before.
C5_AlwaysAuthenticated ==
    LET bearer == <<"B", "e", "a", "r", "e", "r", " ">> \o config.token IN
    /\ inner # None => inner[1].auth_header = bearer
    /\ (call.stage # "idle" /\ call.out # None) =>
        /\ call.intercepted = 1
        /\ call.out[1].metadata.authorization = Some(bearer)
    /\ call.stage \in {"awaiting", "returned"} => call.out # None

\* C5 witness: a request handed to the raw stub with an authorization value of
\* its own has gone out with the client's value instead.
C5_Witness ==
    /\ call.stage = "awaiting"
    /\ call.method \in {"StreamEvents", "IngestEvents"}
    /\ call.args.authorization # None
    /\ call.out[1].metadata.authorization # call.args.authorization
    /\ config.token # <<>>

\* a call made by one of the four high-level methods is under way or has returned
C6_HighLevel ==
    /\ call.stage # "idle"
    /\ call.method \in {"SendMessage", "SendPrivateMessage",
                        "PerformAction", "PerformPrivateAction"}

\* the id a request carries, under the field name of its method
C6_Id(method, req) ==
    IF method \in {"SendMessage", "PerformAction"} THEN req.channel_id ELSE req.user_id

\* C6: the request of send_message, send_private_message, perform_action and
\* perform_private_action carries the given id; the given string as text and
\* no content node for plain text; empty text and the given tree (a Block
\* builder normalized first) as content node for a block tree; the given tags,
\* or the empty mapping when tags is absent. It is handed to the channel so.
C6_RequestFields ==
    C6_HighLevel =>
        LET a == call.args
            r == call.req
        IN
        /\ C6_Id(call.method, r) = a.id
        /\ a.content.ty = "str" => r.text = a.content.v /\ r.root_block = None
        /\ a.content.ty = "proto" => r.text = "" /\ r.root_block = Some(a.content.v)
        /\ a.content.ty = "Block" =>
            /\ r.text = ""
            /\ r.root_block =
                Some(IF Len(a.content.v.children) = 1
                     THEN a.content.v.children[1]
                     ELSE ProtoBlock("", Some(ContainerBlock(a.content.v.children))))
        /\ r.tags = (IF a.tags = None THEN {} ELSE a.tags[1])
        /\ call.out # None => call.out[1].req = r /\ call.out[1].method = call.method

\* C6 witness: send_message(id, "hi", None) is on the wire with text "hi", no
\* content node and no tags.
C6_Witness ==
    /\ call.stage = "awaiting"
    /\ call.method = "SendMessage"
    /\ call.args = [id |-> "chan-1", content |-> Str("hi"), tags |-> None]
    /\ call.out[1].req =
        [channel_id |-> "chan-1", text |-> "hi", root_block |-> None, tags |-> {}]

\* C7 as stated: of text and content node exactly one is populated, never both
\* and never neither, for every content, the empty string included.
C7_ExactlyOnePopulated ==
    C6_HighLevel =>
        (call.req.text # "") # (call.req.root_block # None)

\* C7 amended: text and content node are never both populated, and neither is
\* populated exactly when the content is the empty plain string; for every
\* other content exactly one is.
C7_AtMostOnePopulated ==
    C6_HighLevel =>
        /\ ~(call.req.text # "" /\ call.req.root_block # None)
        /\ (call.req.text = "" /\ call.req.root_block = None)
            <=> call.args.content = Str("")

\* C7 witness: a request was built from the empty plain string and has neither
\* text nor content node.
C7_Witness ==
    /\ C6_HighLevel
    /\ call.args.content = Str("")
    /\ call.req.text = ""
    /\ call.req.root_block = None

\* C10: the URL's scheme decides, once, whether the TLS configuration is
\* applied: from the connection attempt on, the channel builder has it applied
\* exactly when the URL has no scheme or the scheme https, and a connection
\* made is made that way; without a parsed URL nothing is applied or tried.
C10_SchemeSelectsTls ==
    /\ pc \in {"connect", "token", "wrap", "ready"} \/ net.attempts > 0 =>
        /\ builder.uri # None
        /\ builder.tls <=> builder.uri[1].scheme \in {None, Some("https")}
        /\ net.connected => net.tls = builder.tls
    /\ builder.uri = None => ~builder.tls /\ net.attempts = 0

\* C10 witness: ChatIngestClient::new with an ftp URL has connected without a
\* TLS configuration.
C10_Witness ==
    /\ client = "ChatIngestClient"
    /\ config.url = "ftp://x"
    /\ net.connected
    /\ ~net.tls

\* C11: each invocation of send_message, send_private_message, perform_action
\* or perform_private_action hands exactly one request to the channel; it
\* returns success when the channel answered with a reply and the channel's
\* failure when it answered with one; no second request is issued and no
\* failure is returned as success.
C11_OneCallNoRetry ==
    C6_HighLevel =>
        /\ call.issued <= 1
        /\ call.stage \in {"awaiting", "returned"} => call.issued = 1
        /\ call.stage = "returned" =>
            /\ call.ret # None /\ call.response # None
            /\ call.ret[1].ok <=> call.response[1].ok
            /\ ~call.response[1].ok =>
                    call.ret[1].error = Some(call.response[1].status)
        /\ call.stage # "returned" => call.ret = None

\* C11 witness: perform_private_action has returned the failure of its one
\* request.
C11_Witness ==
    /\ call.stage = "returned"
    /\ call.method = "PerformPrivateAction"
    /\ call.issued = 1
    /\ ~call.ret[1].ok
    /\ call.ret[1].error = Some("Unavailable")

\* C12: every failure returned to the caller carries context naming its
\* origin: a failed new() returns an error with context for the step that
\* failed (URL parse, TLS configuration, connect, token validation), and a
\* failed send_message, send_private_message, perform_action or
\* perform_private_action returns an error with context for that call.
C12_EveryFailureHasContext ==
    /\ (result # None /\ ~result[1].ok) => result[1].context # None
    /\ (C6_HighLevel /\ call.stage = "returned" /\ ~call.ret[1].ok) =>
            call.ret[1].context # None

\* C13: new() parses the URL, selects transport security, connects, validates
\* the token and wraps the channel, in that order. The first failing step
\* ends it with that step's error: nothing of a later step has happened and
\* no client exists; a client exists only when every step succeeded. A
\* malformed URL fails before any connection attempt, an unreachable endpoint
\* before the token is validated.
C13_StepOrder ==
    /\ builder.uri = None => ~builder.tls /\ net.attempts = 0
    /\ ~net.connected => auth_header = None
    /\ auth_header = None => inner = None
    /\ net.attempts <= 1
    /\ inner # None <=> (result # None /\ result[1].ok)
    /\ inner # None <=> pc = "ready"
    /\ pc = "ready" =>
        /\ builder.uri # None
        /\ net.connected
        /\ auth_header = Some(<<"B", "e", "a", "r", "e", "r", " ">> \o config.token)
        /\ inner[1].auth_header = auth_header[1]
    /\ pc = "failed" <=> (result # None /\ ~result[1].ok)
    /\ pc = "failed" =>
        /\ inner = None /\ auth_header = None /\ call.stage = "idle"
        /\ result[1].step = "parse" => builder.uri = None /\ net.attempts = 0
        /\ result[1].step = "tls" =>
                builder.uri # None /\ ~builder.tls /\ net.attempts = 0
        /\ result[1].step = "connect" =>
                builder.uri # None /\ net.attempts = 1 /\ ~net.connected
        /\ result[1].step = "token" => net.attempts = 1 /\ net.connected
        /\ result[1].step \in {"parse", "tls", "connect", "token"}
    /\ (builder.uri = None /\ pc # "parse") =>
            pc = "failed" /\ result[1].step = "parse"

\* C13 witness: with an unreachable endpoint and a token holding a newline,
\* new() has returned the connection's failure, the token not validated.
C13_Witness ==
    /\ C4_HasIllegalChar(config.token)
    /\ pc = "failed"
    /\ result[1].step = "connect"
    /\ net.attempts = 1
    /\ auth_header = None

(***************************************************************************)
(* Further claims checked under Spec                                        *)
(***************************************************************************)
\* the state is the result of proto::Block::from(Block::from(n)) for a proto::Block n
WireRoundTripDone == last.op = "into_proto" /\ origin.ty = "proto"

\* C15: converting a proto::Block n to a builder and back gives n when n is
\* not a Container; a Container of the same inner sequence with an empty plain
\* text when n is a Container of zero or several inner nodes; the inner node
\* itself when n is a Container of exactly one. So the round trip is the
\* identity exactly on the nodes that are not Containers and on the Containers
\* with an empty plain text and a number of inner nodes other than one.
C15_WireRoundTrip ==
    WireRoundTripDone =>
        LET n == origin.v
            r == value.v
            isContainer == n.inner # None /\ n.inner[1].kind = "Container"
        IN
        /\ ~isContainer => r = n
        /\ (isContainer /\ Len(n.inner[1].inner) # 1) =>
                r = [plain |-> "",
                     inner |-> <<[kind |-> "Container", inner |-> n.inner[1].inner]>>]
        /\ (isContainer /\ Len(n.inner[1].inner) = 1) => r = n.inner[1].inner[1]
        /\ r = n <=>
            \/ ~isContainer
            \/ n.plain = "" /\ Len(n.inner[1].inner) # 1

\* C15 witness: a Container of two nodes with a plain text has come back as a
\* Container of the same two nodes without it.
C15_Witness ==
    /\ WireRoundTripDone
    /\ origin.v.plain = "p"
    /\ origin.v.inner # None
    /\ origin.v.inner[1].kind = "Container"
    /\ Len(origin.v.inner[1].inner) = 2
    /\ value.v.plain = ""
    /\ value.v.inner[1].inner = origin.v.inner[1].inner

(***************************************************************************)
(* src/block.rs: the builder methods that take content                      *)
(***************************************************************************)
ItalicsBlock(b) == [kind |-> "Italics", inner |-> b]

UnderlineBlock(b) == [kind |-> "Underline", inner |-> b]

StrikethroughBlock(b) == [kind |-> "Strikethrough", inner |-> b]

SpoilerBlock(b) == [kind |-> "Spoiler", inner |-> b]

BlockquoteBlock(b) == [kind |-> "Blockquote", inner |-> b]

LinkBlock(url, b) == [kind |-> "Link", url |-> url, inner |-> b]

HeadingBlock(level, b) == [kind |-> "Heading", level |-> level, inner |-> b]

ListBlock(blocks) == [kind |-> "List", inner |-> blocks]

\* `content.into().into()`: Into<Block>, then Into<proto::Block>
inner_block(content) == ProtoFromBlock(IntoBlock(content))

\* Block::bold
bold(self, content) ==
    [children |-> Append(self.children,
        ProtoBlock("", Some(BoldBlock(Some(inner_block(content))))))]

\* Block::italic
italic(self, content) ==
    [children |-> Append(self.children,
        ProtoBlock("", Some(ItalicsBlock(Some(inner_block(content))))))]

\* Block::underline
underline(self, content) ==
    [children |-> Append(self.children,
        ProtoBlock("", Some(UnderlineBlock(Some(inner_block(content))))))]

\* Block::strikethrough
strikethrough(self, content) ==
    [children |-> Append(self.children,
        ProtoBlock("", Some(StrikethroughBlock(Some(inner_block(content))))))]

\* Block::spoiler
spoiler(self, content) ==
    [children |-> Append(self.children,
        ProtoBlock("", Some(SpoilerBlock(Some(inner_block(content))))))]

\* Block::blockquote
blockquote(self, content) ==
    [children |-> Append(self.children,
        ProtoBlock("", Some(BlockquoteBlock(Some(inner_block(content))))))]

\* Block::link
link(self, url, content) ==
    [children |-> Append(self.children,
        ProtoBlock("", Some(LinkBlock(url, Some(inner_block(content))))))]

\* Block::heading, with the level forced into 1..6
heading_Clamped(self, level, content) ==
    [children |-> Append(self.children,
        ProtoBlock("", Some(HeadingBlock(
            IF level < 1 THEN 1 ELSE IF level > 6 THEN 6 ELSE level,
            Some(inner_block(content))))))]

\* Block::heading
heading(self, level, content) ==
    [children |-> Append(self.children,
        ProtoBlock("", Some(HeadingBlock(level, Some(inner_block(content))))))]

\* Block::list
list(self, items) ==
    [children |-> Append(self.children,
        ProtoBlock("", Some(ListBlock(
            [i \in 1..Len(items) |-> inner_block(items[i])]))))]

(***************************************************************************)
(* SpecBuild: a builder, and one content-taking method applied to it        *)
(***************************************************************************)
\* the builders the method is applied to
StartBlocks ==
    { [children |-> cs] : cs \in SeqsUpTo({T("a"), C(<<T("b")>>)}, MaxLen) }

\* content: impl Into<Block>
BuildContents ==
    { Str("a"), Str(""),
      Blk(new), Blk(text(new, "b")),
      Blk([children |-> <<T("a"), T("b")>>]),
      Blk([children |-> <<C(<<T("a")>>)>>]),
      Proto(T("a")), Proto(C(<<T("a")>>)),
      Proto(ProtoBlock("p", Some(ContainerBlock(<<T("b"), T("a")>>)))) }

\* items: impl IntoIterator<Item = impl Into<Block>>, all items of one type
BuildItems ==
    SeqsUpTo({Str("a"), Str("b")}, MaxItems)
    \cup SeqsUpTo({Blk(new), Blk(text(new, "b")),
                   Blk([children |-> <<T("a"), T("b")>>])}, MaxItems)
    \cup SeqsUpTo({Proto(T("a")), Proto(C(<<T("b")>>))}, MaxItems)

\* url: impl Into<String>
LinkUrls == {"", "https://e"}

\* level: i32
Levels == {-1, 0, 3, 7}

InitBuild ==
    /\ \E b \in StartBlocks : value = Blk(b)
    /\ last = [op |-> "start", self |-> NoArg, arg |-> NoArg]
    /\ origin = NoArg
    /\ chain = ChainIdle
    /\ ClientIdle

\* the method returns `self` with the node pushed
Built(op, arg, block) ==
    /\ last.op = "start"
    /\ value' = Blk(block)
    /\ last' = [op |-> op, self |-> value, arg |-> arg]
    /\ UNCHANGED <<origin, chainVars, clientVars>>

BuildBold ==
    \E content \in BuildContents :
        Built("bold", [content |-> content], bold(value.v, content))

BuildItalic ==
    \E content \in BuildContents :
        Built("italic", [content |-> content], italic(value.v, content))

BuildUnderline ==
    \E content \in BuildContents :
        Built("underline", [content |-> content], underline(value.v, content))

BuildStrikethrough ==
    \E content \in BuildContents :
        Built("strikethrough", [content |-> content], strikethrough(value.v, content))

BuildSpoiler ==
    \E content \in BuildContents :
        Built("spoiler", [content |-> content], spoiler(value.v, content))

BuildBlockquote ==
    \E content \in BuildContents :
        Built("blockquote", [content |-> content], blockquote(value.v, content))

BuildLink ==
    \E url \in LinkUrls, content \in BuildContents :
        Built("link", [url |-> url, content |-> content], link(value.v, url, content))

BuildHeading ==
    \E level \in Levels, content \in BuildContents :
        Built("heading", [level |-> level, content |-> content],
              heading(value.v, level, content))

BuildList ==
    \E items \in BuildItems :
        Built("list", [items |-> items], list(value.v, items))

BuildContainer ==
    \E items \in BuildItems :
        Built("container", [items |-> items], container(value.v, items))

NextBuild ==
    \/ BuildBold
    \/ BuildItalic
    \/ BuildUnderline
    \/ BuildStrikethrough
    \/ BuildSpoiler
    \/ BuildBlockquote
    \/ BuildLink
    \/ BuildHeading
    \/ BuildList
    \/ BuildContainer

SpecBuild == InitBuild /\ [][NextBuild]_vars

\* the kind of node each method pushes
C14_Kind(op) ==
    CASE op = "bold" -> "Bold"
      [] op = "italic" -> "Italics"
      [] op = "underline" -> "Underline"
      [] op = "strikethrough" -> "Strikethrough"
      [] op = "spoiler" -> "Spoiler"
      [] op = "blockquote" -> "Blockquote"
      [] op = "link" -> "Link"
      [] op = "heading" -> "Heading"
      [] op = "list" -> "List"
      [] op = "container" -> "Container"

\* the normalized form of a content: a Text leaf for a string, the child of a
\* one-child builder, a Container of the children of any other builder; for a
\* proto::Block, the node itself unless it is a Container, which is taken as
\* the builder of its inner nodes
C14_Normalized(content) ==
    LET wrap(cs) ==
            IF Len(cs) = 1
            THEN cs[1]
            ELSE [plain |-> "", inner |-> <<[kind |-> "Container", inner |-> cs]>>]
    IN
    CASE content.ty = "str" ->
            [plain |-> "", inner |-> <<[kind |-> "Text", text |-> content.v]>>]
      [] content.ty = "Block" -> wrap(content.v.children)
      [] content.ty = "proto" ->
            IF content.v.inner # None /\ content.v.inner[1].kind = "Container"
            THEN wrap(content.v.inner[1].inner)
            ELSE content.v

\* C14: every builder method that takes content appends exactly one node at
\* the end and leaves the earlier children as they were; bold, italic,
\* underline, strikethrough, spoiler, blockquote, link and heading append a
\* node of their kind holding the normalized content, with url and level
\* stored unchanged; list and container append one node holding one entry per
\* item, the item's normalized form, in input order.
C14_AppendsOneNode ==
    last.op # "start" =>
        LET before == last.self.v.children
            after == value.v.children
            node == after[Len(after)]
        IN
        /\ Len(after) = Len(before) + 1
        /\ SubSeq(after, 1, Len(before)) = before
        /\ node.inner # None
        /\ node.inner[1].kind = C14_Kind(last.op)
        /\ last.op \notin {"list", "container"} =>
                node.inner[1].inner = <<C14_Normalized(last.arg.content)>>
        /\ last.op = "link" => node.inner[1].url = last.arg.url
        /\ last.op = "heading" => node.inner[1].level = last.arg.level
        /\ last.op \in {"list", "container"} =>
            /\ Len(node.inner[1].inner) = Len(last.arg.items)
            /\ \A i \in 1..Len(last.arg.items) :
                    node.inner[1].inner[i] = C14_Normalized(last.arg.items[i])

\* C14 witness: heading(7, b), b a builder of two children, was applied to a
\* builder of two children and pushed a third, level 7, holding a Container.
C14_Witness ==
    /\ last.op = "heading"
    /\ last.arg.level = 7
    /\ last.arg.content.ty = "Block"
    /\ Len(last.arg.content.v.children) = 2
    /\ Len(last.self.v.children) = 2
    /\ Len(value.v.children) = 3
    /\ value.v.children[3].inner[1].level = 7
    /\ value.v.children[3].inner[1].inner[1].inner[1].kind = "Container"

====
